---- MODULE Spec2Model ----
(***************************************************************************)
(* Model of package ochp's error values (src/ochp/errors.go): the OchpErr  *)
(* interface, the structs Err, ErrDecode, ErrEmptyResponse, ochpErr and    *)
(* the ten result-code variants that embed ochpErr, their methods, and a   *)
(* caller that inspects an error value through the interface.              *)
(*                                                                         *)
(* Pointers are addresses: 0 is nil, a positive address names an object.   *)
(* A method's result is a record [panic, val]; panic is TRUE when the      *)
(* method dereferenced nil on the way.                                     *)
(***************************************************************************)
EXTENDS Integers, Sequences, FiniteSets, TLC

VARIABLES e, heap, buf, ret, captured

vars == <<e, heap, buf, ret, captured>>

(***************************************************************************)
(* Bounds of the model.                                                    *)
(***************************************************************************)
\* Longest response body snapshot an error value carries.
MaxBodyLen == 1


(***************************************************************************)
(* Strings and package fmt.                                                *)
(***************************************************************************)
Digits == "0123456789"

\* strconv-style decimal formatting of a non-negative integer.
RECURSIVE ItoaNat(_)
ItoaNat(n) ==
    IF n < 10 THEN SubSeq(Digits, n + 1, n + 1)
    ELSE ItoaNat(n \div 10) \o SubSeq(Digits, (n % 10) + 1, (n % 10) + 1)

\* Decimal formatting of an int, as fmt's %d and %v print it.
Itoa(n) == IF n < 0 THEN "-" \o ItoaNat(0 - n) ELSE ItoaNat(n)

\* Operands of fmt.Sprint and fmt.Sprintf.
StrArg(s) == [isString |-> TRUE, s |-> s, n |-> 0]
Num(n) == [isString |-> FALSE, s |-> "", n |-> n]

\* An operand printed with its default format (%v).
FormatV(a) == IF a.isString THEN a.s ELSE Itoa(a.n)

\* fmt.Sprint with a space between every two operands (what fmt.Sprintln
\* does).
RECURSIVE SprintAlwaysSpace(_)
SprintAlwaysSpace(ops) ==
    IF ops = <<>> THEN ""
    ELSE IF Len(ops) = 1 THEN FormatV(ops[1])
    ELSE FormatV(ops[1]) \o " " \o SprintAlwaysSpace(Tail(ops))

\* fmt.Sprint: the operands in their default formats; a space is added
\* between two operands only when neither is a string.
RECURSIVE Sprint(_)
Sprint(ops) ==
    IF ops = <<>> THEN ""
    ELSE IF Len(ops) = 1 THEN FormatV(ops[1])
    ELSE FormatV(ops[1])
         \o (IF ~ops[1].isString /\ ~ops[2].isString THEN " " ELSE "")
         \o Sprint(Tail(ops))

\* One verb of fmt.Sprintf applied to one operand.
FormatVerb(verb, a) ==
    IF verb = "s" /\ a.isString THEN a.s
    ELSE IF verb = "d" /\ ~a.isString THEN Itoa(a.n)
    ELSE "%!" \o verb \o "(" \o FormatV(a) \o ")"

\* Index of the first "%" of format, 0 when there is none.
RECURSIVE IndexPercent(_, _)
IndexPercent(format, i) ==
    IF i > Len(format) THEN 0
    ELSE IF SubSeq(format, i, i) = "%" THEN i
    ELSE IndexPercent(format, i + 1)

\* fmt.Sprintf for the verbs the package uses (%s, %d).
RECURSIVE Sprintf(_, _)
Sprintf(format, args) ==
    LET i == IndexPercent(format, 1) IN
    IF i = 0 \/ i = Len(format) THEN format
    ELSE IF args = <<>>
         THEN SubSeq(format, 1, i - 1) \o "%!" \o SubSeq(format, i + 1, i + 1)
              \o "(MISSING)" \o Sprintf(SubSeq(format, i + 2, Len(format)), args)
    ELSE SubSeq(format, 1, i - 1)
         \o FormatVerb(SubSeq(format, i + 1, i + 1), Head(args))
         \o Sprintf(SubSeq(format, i + 2, Len(format)), Tail(args))

\* Whether sub occurs in s.
Contains(s, sub) ==
    \E i \in 1..(Len(s) - Len(sub) + 1) : SubSeq(s, i, i + Len(sub) - 1) = sub

(***************************************************************************)
(* Values the error structs are built from.                                *)
(***************************************************************************)
\* The nil pointer, the nil interface value and the nil slice's pointer.
NilPtr == 0

\* The byte values a body snapshot holds and a caller writes.
Bytes == {0, 1}

\* The error objects an error value can wrap: wrapped is 0 (a nil
\* interface) or the index of one of these; the entry is what its Error()
\* returns (errors.New("") is a cause as well).
Causes == <<"unexpected EOF", "">>

\* The http.Response objects an error value can point to: httpResponse is
\* NilPtr or the address of one of these.
Responses == <<[StatusCode |-> 199], [StatusCode |-> 200], [StatusCode |-> 299],
               [StatusCode |-> 300], [StatusCode |-> 500]>>

ResultCodes == {"", "not-found"}

ResultDescriptions == {"", "id unknown"}

\* A []byte: the address of its backing array (NilPtr for a nil slice) and
\* its length.
NilSlice == [ptr |-> NilPtr, len |-> 0]

\* Address of the backing array of an error value's body snapshot.
BodyArray == 1

\* The ten variants that embed ochpErr.
Variants == {"ErrPartly", "ErrNotFound", "ErrNotAuthorized", "ErrNotSupported",
             "ErrInvalidId", "ErrServer", "ErrFormat", "ErrRoaming",
             "ErrUnknownResultCode", "ErrHttp"}

\* Types whose method set comes from ochpErr.
OchpKinds == {"ochpErr"} \cup Variants

\* Types that embed ErrDecode (directly or through ochpErr).
DecodeKinds == {"ErrDecode", "ErrEmptyResponse"} \cup OchpKinds

Kinds == {"Err"} \cup DecodeKinds

\* A value of one of the error types: its dynamic type and the fields of
\* the (flattened) embedded structs; a field the type does not have holds
\* its zero value.
ErrValue(kind, wrapped, httpResponse, httpResponseBody, resultCode, resultDescription) ==
    [kind |-> kind, wrapped |-> wrapped,
     httpResponse |-> IF kind \in DecodeKinds THEN httpResponse ELSE NilPtr,
     httpResponseBody |-> IF kind \in DecodeKinds THEN httpResponseBody ELSE NilSlice,
     resultCode |-> IF kind \in OchpKinds THEN resultCode ELSE "",
     resultDescription |-> IF kind \in OchpKinds THEN resultDescription ELSE ""]

\* The body snapshots a composite literal can hold: nil, or a slice of the
\* backing array.
BodySlices == {NilSlice} \cup {[ptr |-> BodyArray, len |-> n] : n \in 0..MaxBodyLen}

(***************************************************************************)
(* Method results.                                                         *)
(***************************************************************************)
Returns(v) == [panic |-> FALSE, val |-> v]

\* A nil dereference: the method does not return (zero stands for the
\* value never produced).
Panics(zero) == [panic |-> TRUE, val |-> zero]

\* e.httpResponse.StatusCode: a field load through the pointer.
LoadStatusCode(p) ==
    IF p = NilPtr THEN Panics(0) ELSE Returns(Responses[p].StatusCode)

\* err.Error() on an interface value: a method call on the nil interface
\* panics.
InvokeError(w) ==
    IF w = NilPtr THEN Panics("") ELSE Returns(Causes[w])

(***************************************************************************)
(* Err                                                                     *)
(***************************************************************************)
\* Err.Error without the fallback for a nil wrapped error.
ErrErrorNoFallback(x) ==
    IF x.wrapped /= NilPtr THEN InvokeError(x.wrapped)
    ELSE Returns("")

ErrError(x) ==
    IF x.wrapped /= NilPtr THEN InvokeError(x.wrapped)
    ELSE Returns("unknown error")

ErrUnwrap(x) == Returns(x.wrapped)

ErrResultCode(x) == Returns("")

ErrResultDescription(x) == Returns("")

ErrHttpResponse(x) == Returns(NilPtr)

ErrHttpResponseBody(x) == Returns(NilSlice)

(***************************************************************************)
(* ErrDecode                                                               *)
(***************************************************************************)
ErrDecodeError(x) ==
    LET statusCode == LoadStatusCode(x.httpResponse)
        statusDetails ==
            IF x.httpResponse /= NilPtr
            THEN [panic |-> statusCode.panic,
                  val |-> Sprint(<<StrArg(" with HTTP status"), Num(statusCode.val)>>)]
            ELSE Returns("")
        err2 == ErrUnwrap(x)
        cause == InvokeError(err2.val)
        wrappedErrorDetails ==
            IF err2.val /= NilPtr
            THEN [panic |-> cause.panic, val |-> ":\n" \o cause.val]
            ELSE Returns("")
    IN  [panic |-> statusDetails.panic \/ wrappedErrorDetails.panic,
         val |-> Sprintf("server responded%s, but response was unable to be decoded successfully%s",
                         <<StrArg(statusDetails.val), StrArg(wrappedErrorDetails.val)>>)]

\* ErrDecode without its own HttpResponse: Err's is promoted instead.
ErrDecodeHttpResponseNotOverridden(x) == ErrHttpResponse(x)

ErrDecodeHttpResponse(x) == Returns(x.httpResponse)

ErrDecodeHttpResponseBody(x) == Returns(x.httpResponseBody)

(***************************************************************************)
(* ErrEmptyResponse                                                        *)
(***************************************************************************)
\* ErrEmptyResponse without its own Error: ErrDecode's is promoted instead.
ErrEmptyResponseErrorNotOverridden(x) == ErrDecodeError(x)

ErrEmptyResponseError(x) ==
    Returns("Server unexpectedly responded with an empty response. This indicates an internal error. This might be caused by a bad request")

(***************************************************************************)
(* ochpErr                                                                 *)
(***************************************************************************)
\* The message that names the HTTP status.
WithStatusMessage(x, status) ==
    Sprintf("server responded with http status %d and resultCode \"%s\": %s",
            <<Num(status), StrArg(x.resultCode), StrArg(x.resultDescription)>>)

\* The message that names the result alone.
WithoutStatusMessage(x) ==
    Sprintf("server responded with resultCode \"%s\": %s",
            <<StrArg(x.resultCode), StrArg(x.resultDescription)>>)

\* ochpErr.Error with the range test written status > 200.
ochpErrErrorLowerExclusive(x) ==
    IF x.httpResponse = NilPtr \/ (x.resultCode = "" /\ x.resultDescription = "")
    THEN ErrDecodeError(x)
    ELSE LET statusCode == LoadStatusCode(x.httpResponse) IN
         IF statusCode.panic THEN Panics("")
         ELSE IF statusCode.val > 200 /\ statusCode.val < 300
         THEN Returns(WithStatusMessage(x, statusCode.val))
         ELSE Returns(WithoutStatusMessage(x))

\* ochpErr.Error with the range test missing its upper bound.
ochpErrErrorNoUpperBound(x) ==
    IF x.httpResponse = NilPtr \/ (x.resultCode = "" /\ x.resultDescription = "")
    THEN ErrDecodeError(x)
    ELSE LET statusCode == LoadStatusCode(x.httpResponse) IN
         IF statusCode.panic THEN Panics("")
         ELSE IF statusCode.val >= 200
         THEN Returns(WithStatusMessage(x, statusCode.val))
         ELSE Returns(WithoutStatusMessage(x))

\* ochpErr.Error falling back only when the response and the result fields
\* are all missing, and otherwise testing the response before it reads it.
ochpErrErrorFallbackWhenAllMissing(x) ==
    IF x.httpResponse = NilPtr /\ (x.resultCode = "" /\ x.resultDescription = "")
    THEN ErrDecodeError(x)
    ELSE IF x.httpResponse /= NilPtr
            /\ Responses[x.httpResponse].StatusCode >= 200
            /\ Responses[x.httpResponse].StatusCode < 300
         THEN Returns(WithStatusMessage(x, Responses[x.httpResponse].StatusCode))
         ELSE Returns(WithoutStatusMessage(x))

\* ochpErr.Error without the nil test of the response.
ochpErrErrorNoNilCheck(x) ==
    IF x.resultCode = "" /\ x.resultDescription = ""
    THEN ErrDecodeError(x)
    ELSE LET statusCode == LoadStatusCode(x.httpResponse) IN
         IF statusCode.panic THEN Panics("")
         ELSE IF statusCode.val >= 200 /\ statusCode.val < 300
         THEN Returns(WithStatusMessage(x, statusCode.val))
         ELSE Returns(WithoutStatusMessage(x))

ochpErrError(x) ==
    IF x.httpResponse = NilPtr \/ (x.resultCode = "" /\ x.resultDescription = "")
    THEN ErrDecodeError(x)
    ELSE LET statusCode == LoadStatusCode(x.httpResponse) IN
         IF statusCode.panic THEN Panics("")
         ELSE IF statusCode.val >= 200 /\ statusCode.val < 300
         THEN Returns(WithStatusMessage(x, statusCode.val))
         ELSE Returns(WithoutStatusMessage(x))

ochpErrResultCode(x) == Returns(x.resultCode)

ochpErrResultDescription(x) == Returns(x.resultDescription)

(***************************************************************************)
(* The OchpErr interface: a call runs the method of the value's dynamic    *)
(* type, which is the type's own method or the one promoted from the       *)
(* nearest embedded struct that declares it.                               *)
(***************************************************************************)
Error(x) ==
    CASE x.kind = "Err" -> ErrError(x)
      [] x.kind = "ErrDecode" -> ErrDecodeError(x)
      [] x.kind = "ErrEmptyResponse" -> ErrEmptyResponseError(x)
      [] x.kind \in OchpKinds -> ochpErrError(x)

Unwrap(x) == ErrUnwrap(x)

ResultCode(x) ==
    IF x.kind \in OchpKinds THEN ochpErrResultCode(x) ELSE ErrResultCode(x)

ResultDescription(x) ==
    IF x.kind \in OchpKinds THEN ochpErrResultDescription(x)
    ELSE ErrResultDescription(x)

HttpResponse(x) ==
    IF x.kind \in DecodeKinds THEN ErrDecodeHttpResponse(x) ELSE ErrHttpResponse(x)

HttpResponseBody(x) ==
    IF x.kind \in DecodeKinds THEN ErrDecodeHttpResponseBody(x)
    ELSE ErrHttpResponseBody(x)

(***************************************************************************)
(* The caller's view.                                                      *)
(***************************************************************************)
\* The bytes a slice holds in memory h.
SliceBytes(s, h) == IF s.ptr = NilPtr THEN <<>> ELSE SubSeq(h[s.ptr], 1, s.len)

\* What the six accessors of x return in memory h, a byte slice by its
\* nil-ness and contents.
Observed(x, h) ==
    [Error |-> Error(x), Unwrap |-> Unwrap(x),
     ResultCode |-> ResultCode(x), ResultDescription |-> ResultDescription(x),
     HttpResponse |-> HttpResponse(x),
     HttpResponseBodyIsNil |-> HttpResponseBody(x).val.ptr = NilPtr,
     HttpResponseBody |-> SliceBytes(HttpResponseBody(x).val, h)]

\* The result of the last accessor call.
NoCall == [op |-> "none", panic |-> FALSE, str |-> "", ptr |-> NilPtr, slice |-> NilSlice]

Result(op, panic, str, ptr, slice) ==
    [op |-> op, panic |-> panic, str |-> str, ptr |-> ptr, slice |-> slice]

(***************************************************************************)
(* Initial states: an error value built by a composite literal of one of   *)
(* the types, its body snapshot (if any) in memory, nothing called yet.    *)
(***************************************************************************)
Init ==
    /\ \E kind \in Kinds, wrapped \in 0..Len(Causes),
          httpResponse \in 0..Len(Responses), body \in BodySlices,
          resultCode \in ResultCodes, resultDescription \in ResultDescriptions :
            e = ErrValue(kind, wrapped, httpResponse, body, resultCode, resultDescription)
    /\ heap \in {<<a>> : a \in [1..e.httpResponseBody.len -> Bytes]}
    /\ buf = NilSlice
    /\ ret = NoCall
    /\ captured = Observed(e, heap)

(***************************************************************************)
(* The caller's steps.                                                     *)
(***************************************************************************)
CallError ==
    /\ ret' = Result("Error", Error(e).panic, Error(e).val, NilPtr, NilSlice)
    /\ UNCHANGED <<e, heap, buf, captured>>

CallUnwrap ==
    /\ ret' = Result("Unwrap", Unwrap(e).panic, "", Unwrap(e).val, NilSlice)
    /\ UNCHANGED <<e, heap, buf, captured>>

CallResultCode ==
    /\ ret' = Result("ResultCode", ResultCode(e).panic, ResultCode(e).val, NilPtr, NilSlice)
    /\ UNCHANGED <<e, heap, buf, captured>>

CallResultDescription ==
    /\ ret' = Result("ResultDescription", ResultDescription(e).panic,
                     ResultDescription(e).val, NilPtr, NilSlice)
    /\ UNCHANGED <<e, heap, buf, captured>>

CallHttpResponse ==
    /\ ret' = Result("HttpResponse", HttpResponse(e).panic, "", HttpResponse(e).val, NilSlice)
    /\ UNCHANGED <<e, heap, buf, captured>>

\* b := err.HttpResponseBody(): the caller keeps the slice it was handed.
CallHttpResponseBody ==
    /\ ret' = Result("HttpResponseBody", HttpResponseBody(e).panic, "", NilPtr,
                     HttpResponseBody(e).val)
    /\ buf' = HttpResponseBody(e).val
    /\ UNCHANGED <<e, heap, captured>>

\* b[i] = v on the slice the caller was handed.
CallerWrite ==
    /\ buf.ptr /= NilPtr
    /\ \E i \in 1..buf.len, v \in Bytes :
          heap' = [heap EXCEPT ![buf.ptr][i] = v]
    /\ UNCHANGED <<e, buf, ret, captured>>

Next ==
    \/ CallError
    \/ CallUnwrap
    \/ CallResultCode
    \/ CallResultDescription
    \/ CallHttpResponse
    \/ CallHttpResponseBody
    \/ CallerWrite

Spec == Init /\ [][Next]_vars

TypeOK ==
    /\ e.kind \in Kinds
    /\ ret.op \in {"none", "Error", "Unwrap", "ResultCode", "ResultDescription",
                   "HttpResponse", "HttpResponseBody"}
    /\ Len(heap) = 1

(***************************************************************************)
(* Properties.                                                             *)
(***************************************************************************)
\* The status code of the response x points to (x.httpResponse is not nil).
StatusOf(x) == Responses[x.httpResponse].StatusCode

BothResultFieldsEmpty(x) == x.resultCode = "" /\ x.resultDescription = ""

\* The decode message spelled out: the status clause when a response was
\* captured, the cause clause when a cause is wrapped.
DecodeMessage(x) ==
    "server responded"
    \o (IF x.httpResponse /= NilPtr THEN " with HTTP status" \o Itoa(StatusOf(x)) ELSE "")
    \o ", but response was unable to be decoded successfully"
    \o (IF x.wrapped /= NilPtr THEN ":\n" \o Causes[x.wrapped] ELSE "")

EmptyResponseMessage ==
    "Server unexpectedly responded with an empty response. This indicates an internal error. This might be caused by a bad request"

\* The protocol-result message that names the status.
ResultMessageWithStatus(x) ==
    "server responded with http status " \o Itoa(StatusOf(x)) \o " and resultCode \""
    \o x.resultCode \o "\": " \o x.resultDescription

\* The protocol-result message without the status.
ResultMessage(x) ==
    "server responded with resultCode \"" \o x.resultCode \o "\": " \o x.resultDescription

\* C1: for every Err, with or without a wrapped cause, HttpResponse() and
\* HttpResponseBody() are nil, ResultCode() and ResultDescription() are "",
\* and Error() is the cause's text when a cause is wrapped and
\* "unknown error" when none is; a call returns exactly that.
C1_ErrAccessors ==
    e.kind = "Err" =>
        /\ HttpResponse(e) = Returns(NilPtr)
        /\ HttpResponseBody(e) = Returns(NilSlice)
        /\ ResultCode(e) = Returns("")
        /\ ResultDescription(e) = Returns("")
        /\ Error(e) = Returns(IF e.wrapped /= NilPtr THEN Causes[e.wrapped]
                              ELSE "unknown error")
        /\ ret.op = "Error" =>
              ret.str = (IF e.wrapped /= NilPtr THEN Causes[e.wrapped]
                         ELSE "unknown error")
        /\ ret.op = "HttpResponse" => ret.ptr = NilPtr
        /\ ret.op = "HttpResponseBody" => ret.slice = NilSlice
        /\ ret.op \in {"ResultCode", "ResultDescription"} => ret.str = ""

\* C1 witness: Error() was called on an Err without a cause and returned
\* the fallback.
C1_Witness ==
    /\ e.kind = "Err" /\ e.wrapped = NilPtr
    /\ ret.op = "Error" /\ ret.str = "unknown error"

C3_DecodeMessageFormat ==
    /\ e.kind \in DecodeKinds => ErrDecodeError(e) = Returns(DecodeMessage(e))
    /\ (e.kind = "ErrDecode" /\ ret.op = "Error") =>
          (~ret.panic /\ ret.str = DecodeMessage(e))

\* C3 witness: Error() was called on an ErrDecode with a 200 response and a
\* cause, and returned the message of the spec's scenario 2.
C3_Witness ==
    /\ e.kind = "ErrDecode"
    /\ e.httpResponse /= NilPtr /\ StatusOf(e) = 200
    /\ e.wrapped /= NilPtr /\ Causes[e.wrapped] = "unexpected EOF"
    /\ ret.op = "Error"
    /\ ret.str = "server responded with HTTP status200, but response was unable to be decoded successfully:\nunexpected EOF"

\* C4: for every ErrEmptyResponse, Error() is the same fixed message
\* whatever the response, the body snapshot and the cause, and the other
\* accessors return what an ErrDecode with the same fields returns.
C4_EmptyResponse ==
    e.kind = "ErrEmptyResponse" =>
        LET d == [e EXCEPT !.kind = "ErrDecode"] IN
        /\ Error(e) = Returns(EmptyResponseMessage)
        /\ ret.op = "Error" => ret.str = EmptyResponseMessage
        /\ HttpResponse(e) = HttpResponse(d)
        /\ HttpResponseBody(e) = HttpResponseBody(d)
        /\ ResultCode(e) = ResultCode(d)
        /\ ResultDescription(e) = ResultDescription(d)
        /\ HttpResponse(e).val = e.httpResponse
        /\ HttpResponseBody(e).val = e.httpResponseBody

\* C4 witness: Error() was called on an ErrEmptyResponse that has a cause,
\* a response and a non-empty body snapshot, and returned the fixed message.
C4_Witness ==
    /\ e.kind = "ErrEmptyResponse"
    /\ e.wrapped /= NilPtr /\ e.httpResponse /= NilPtr
    /\ e.httpResponseBody.len > 0
    /\ ret.op = "Error" /\ ret.str = EmptyResponseMessage

\* C5 as stated: for every protocol-result error whose response has a
\* status in [200,300), Error() is exactly
\* server responded with http status <status> and resultCode "<code>": <description>.
C5_Original ==
    (/\ e.kind \in OchpKinds
     /\ e.httpResponse /= NilPtr
     /\ StatusOf(e) >= 200 /\ StatusOf(e) < 300)
    => Error(e) = Returns(ResultMessageWithStatus(e))

\* C5 amended: for every protocol-result error whose response has a status
\* in [200,300) and whose resultCode or resultDescription is not empty,
\* Error() is exactly
\* server responded with http status <status> and resultCode "<code>": <description>;
\* when both are empty it is the decode message.
C5_Amended ==
    (/\ e.kind \in OchpKinds
     /\ e.httpResponse /= NilPtr
     /\ StatusOf(e) >= 200 /\ StatusOf(e) < 300)
    => /\ ~BothResultFieldsEmpty(e) => Error(e) = Returns(ResultMessageWithStatus(e))
       /\ BothResultFieldsEmpty(e) => Error(e) = Returns(DecodeMessage(e))
       /\ ret.op = "Error" => ret.str = Error(e).val

\* C5 witness: Error() was called on an ErrNotFound with a 200 response and
\* returned the message of the spec's scenario 4.
C5_Witness ==
    /\ e.kind = "ErrNotFound"
    /\ e.httpResponse /= NilPtr /\ StatusOf(e) = 200
    /\ ret.op = "Error"
    /\ ret.str = "server responded with http status 200 and resultCode \"not-found\": id unknown"

\* C6 as stated: for every protocol-result error (ErrHttp included) whose
\* response has a status outside [200,300), Error() is exactly
\* server responded with resultCode "<code>": <description>
\* and holds no digits of the status.
C6_Original ==
    (/\ e.kind \in OchpKinds
     /\ e.httpResponse /= NilPtr
     /\ ~(StatusOf(e) >= 200 /\ StatusOf(e) < 300))
    => /\ Error(e) = Returns(ResultMessage(e))
       /\ ~Contains(Error(e).val, Itoa(StatusOf(e)))

\* C6 amended: for every protocol-result error (ErrHttp included) whose
\* response has a status outside [200,300) and whose resultCode or
\* resultDescription is not empty, Error() is exactly
\* server responded with resultCode "<code>": <description>
\* with no status in it; when both are empty it is the decode message,
\* which names the status.
C6_Amended ==
    (/\ e.kind \in OchpKinds
     /\ e.httpResponse /= NilPtr
     /\ ~(StatusOf(e) >= 200 /\ StatusOf(e) < 300))
    => /\ ~BothResultFieldsEmpty(e) =>
             /\ Error(e) = Returns(ResultMessage(e))
             /\ ~Contains(Error(e).val, Itoa(StatusOf(e)))
       /\ BothResultFieldsEmpty(e) =>
             /\ Error(e) = Returns(DecodeMessage(e))
             /\ Contains(Error(e).val, Itoa(StatusOf(e)))
       /\ ret.op = "Error" => ret.str = Error(e).val

\* C6 witness: Error() was called on an ErrHttp with a 500 response and an
\* empty resultCode, and returned the message without the status.
C6_Witness ==
    /\ e.kind = "ErrHttp"
    /\ e.httpResponse /= NilPtr /\ StatusOf(e) = 500
    /\ e.resultCode = "" /\ e.resultDescription = "id unknown"
    /\ ret.op = "Error"
    /\ ret.str = "server responded with resultCode \"\": id unknown"

\* C7 as stated: ochpErr.Error() is the decode message when neither result
\* fields nor a response are present, and
\* server responded with resultCode "<code>": <description>
\* when a result field is not empty but no response is present.
C7_Original ==
    (e.kind \in OchpKinds /\ e.httpResponse = NilPtr)
    => /\ BothResultFieldsEmpty(e) => Error(e) = Returns(DecodeMessage(e))
       /\ ~BothResultFieldsEmpty(e) => Error(e) = Returns(ResultMessage(e))

\* C7 amended: ochpErr.Error() is the decode message whenever no response
\* is present, whether or not a result field is set, and whenever both
\* result fields are empty, whether or not a response is present; the
\* message server responded with resultCode "<code>": <description> is
\* produced only with a response present.
C7_Amended ==
    e.kind \in OchpKinds =>
        /\ (e.httpResponse = NilPtr \/ BothResultFieldsEmpty(e))
              => Error(e) = Returns(DecodeMessage(e))
        /\ Error(e) = Returns(ResultMessage(e)) => e.httpResponse /= NilPtr
        /\ ret.op = "Error" => ret.str = Error(e).val

\* C7 witness: Error() was called on a protocol-result error that has a
\* resultCode but no response, and returned the decode message.
C7_Witness ==
    /\ e.kind \in OchpKinds
    /\ e.httpResponse = NilPtr /\ e.resultCode = "not-found" /\ e.wrapped = NilPtr
    /\ ret.op = "Error"
    /\ ret.str = "server responded, but response was unable to be decoded successfully"

\* C9: after any sequence of accessor calls and of caller writes into the
\* slice handed out by HttpResponseBody(), every accessor still returns
\* what it returned at construction.
C9_Immutable == Observed(e, heap) = captured

\* C10: for every variant and every combination of absent or present
\* cause, response and body snapshot and of empty or non-empty result
\* fields, none of the six accessors dereferences nil, and no call made
\* has.
C10_NoNilDereference ==
    /\ ~Error(e).panic
    /\ ~Unwrap(e).panic
    /\ ~ResultCode(e).panic
    /\ ~ResultDescription(e).panic
    /\ ~HttpResponse(e).panic
    /\ ~HttpResponseBody(e).panic
    /\ ~ret.panic

\* C10 witness: Error() was called on a protocol-result error that has a
\* resultCode but neither a response nor a cause, and returned.
C10_Witness ==
    /\ e.kind \in OchpKinds
    /\ e.httpResponse = NilPtr /\ e.wrapped = NilPtr /\ e.resultCode /= ""
    /\ ret.op = "Error" /\ ~ret.panic
====
